---------------------------- MODULE Spec2Model ----------------------------
(***************************************************************************)
(* Model of the moving-average crossover backtester                        *)
(* (python-backtesters/testbot.py) and of the live signal generator        *)
(* (python-livetester/crypto_bot.py).                                      *)
(*                                                                         *)
(* Numbers: Python floats are modelled as exact rationals <<n, d>> in      *)
(* lowest terms with d > 0.  The pair <<0, 0>> stands for Python's None    *)
(* and for an unbound local.  Python indices are 0-based, sequences here   *)
(* are 1-based: data[k] of the source is d[k + 1] here.                    *)
(***************************************************************************)
EXTENDS Integers, Sequences, FiniteSets, TLC

(* ------------------------------ bounds -------------------------------- *)
MaxLen == 5          \* longest price series
MaxPrice == 3        \* close prices range over 1..MaxPrice
MaxWin == 2          \* short_window, long_window range over 1..MaxWin
MaxLeverage == 2     \* leverage is 1 or MaxLeverage
MaxBalance == 1      \* initial_balance ranges over 1..MaxBalance
MaxCycles == 3       \* poll cycles of main() that are explored
MaxCalls == 6        \* calls of manage_trade_signals that are explored

(* ---------------------------- rationals ------------------------------- *)
RECURSIVE GCD(_, _)
GCD(a, b) == IF b = 0 THEN a ELSE GCD(b, a % b)

IAbs(n) == IF n < 0 THEN -n ELSE n

None == <<0, 0>>

Rat(n, d) ==
    LET g == GCD(IAbs(n), IAbs(d))
        s == IF d < 0 THEN -1 ELSE 1
    IN  <<(s * n) \div g, (s * d) \div g>>

R(n) == <<n, 1>>
Zero == R(0)

RAdd(x, y) == Rat(x[1] * y[2] + y[1] * x[2], x[2] * y[2])
RSub(x, y) == Rat(x[1] * y[2] - y[1] * x[2], x[2] * y[2])
RMul(x, y) == Rat(x[1] * y[1], x[2] * y[2])
RDiv(x, y) == Rat(x[1] * y[2], x[2] * y[1])
RNeg(x) == <<-x[1], x[2]>>
RAbs(x) == <<IAbs(x[1]), x[2]>>
RLt(x, y) == x[1] * y[2] < y[1] * x[2]
RLe(x, y) == x[1] * y[2] <= y[1] * x[2]

(* ------------------------- indicator library -------------------------- *)
\* the loop "for price in prices[1:]: ema = (price - ema) * multiplier + ema"
RECURSIVE EmaFold(_, _, _, _)
EmaFold(prices, k, ema, multiplier) ==
    IF k > Len(prices) THEN ema
    ELSE EmaFold(prices, k + 1,
                 RAdd(RMul(RSub(R(prices[k]), ema), multiplier), ema),
                 multiplier)

\* sum(prices[-period:]) for 1 <= period <= len(prices)
RECURSIVE SumLast(_, _)
SumLast(prices, period) ==
    IF period = 0 THEN 0
    ELSE prices[Len(prices)] + SumLast(SubSeq(prices, 1, Len(prices) - 1), period - 1)

simple_moving_average(prices, period) ==
    IF Len(prices) < period THEN None
    ELSE Rat(SumLast(prices, period), period)

exponential_moving_averageSeedZero(prices, period) ==
    IF Len(prices) < period THEN None
    ELSE EmaFold(prices, 1, R(0), Rat(2, period + 1))

exponential_moving_average(prices, period) ==
    IF Len(prices) < period THEN None
    ELSE EmaFold(prices, 2, R(prices[1]), Rat(2, period + 1))

(* ------------------------------ state --------------------------------- *)
VARIABLES
    data,             \* backtest argument: the close prices of the candles
    short_window,     \* backtest argument
    long_window,      \* backtest argument
    initial_balance,  \* backtest argument
    leverage,         \* backtest argument
    run,              \* locals of backtest and its printed trade events
    last_trade,       \* crypto_bot.py global
    live_pc,          \* position of main() of crypto_bot.py
    fetch,            \* outcome of the latest get_price_data call
    df,               \* <<prev, latest>>: the indicator columns that are read
                      \* of the last two rows of the latest frame
    buy_signal,       \* local of main(), argument of manage_trade_signals
    sell_signal,      \* local of main(), argument of manage_trade_signals
    emitted,          \* notifications sent by the latest manage_trade_signals
    notifications,    \* kinds of all notifications sent so far, in order
    cycle,            \* completed iterations of the loop of main()
    sound,            \* fate of the playsound thread of the latest cycle
    notify,           \* outcome of notification.notify in the latest cycle
    ind               \* one call of the two moving averages: its arguments
                      \* and what each returned

vars == <<data, short_window, long_window, initial_balance, leverage, run,
          last_trade, live_pc, fetch, df, buy_signal, sell_signal, emitted,
          notifications, cycle, sound, notify, ind>>

btParams == <<data, short_window, long_window, initial_balance, leverage>>
liveVars == <<last_trade, live_pc, fetch, df, buy_signal, sell_signal,
              emitted, notifications, cycle, sound, notify>>

Unbound == -1     \* value of the loop variable i before the first iteration

position == run.position
balance == run.balance
entry_price == run.entry_price
events == run.events
short_ma == run.short_ma
long_ma == run.long_ma
i == run.i
pc == run.pc
result == run.result

(* ------------------------- backtest: helpers -------------------------- *)
\* state of the locals after "position = 0; balance = initial_balance"
StartRun(b) ==
    [i |-> Unbound, short_ma |-> None, long_ma |-> None,
     position |-> Zero, balance |-> R(b), entry_price |-> None,
     events |-> <<>>, pc |-> "loop", result |-> None]

\* the trade narration printed by backtest: one record per BUY / SHORT
\* (Enter) and per SELL / CLOSE SHORT (Exit) block
EnterEvent(side, price, bal) ==
    [kind |-> "Enter", side |-> side, price |-> price, profit |-> None,
     balance |-> bal]

ExitEvent(side, price, profit, bal) ==
    [kind |-> "Exit", side |-> side, price |-> price, profit |-> profit,
     balance |-> bal]

\* an uncaught exception (NameError, IndexError) ends the call
Fault(st) == [st EXCEPT !.pc = "fault"]

\* d[k] of the source for a list d: negative k counts from the end, an
\* index out of range raises IndexError (None here)
Item(d, k) ==
    IF k >= 0 /\ k < Len(d) THEN R(d[k + 1])
    ELSE IF k < 0 /\ -k <= Len(d) THEN R(d[Len(d) + k + 1])
    ELSE None

ClosePrefixLookahead(d, idx) ==
    SubSeq(d, 1, IF idx + 2 <= Len(d) THEN idx + 2 ELSE Len(d))

ClosePrefixInclusive(d, idx) == SubSeq(d, 1, idx + 1)

\* close_prices = [c[1] for c in data[:idx]]
ClosePrefix(d, idx) == SubSeq(d, 1, idx)

BuySignalUngated(s, l, pos) == RLt(l, s)

\* "short_ma > long_ma and position <= 0"
BuySignal(s, l, pos) == RLt(l, s) /\ RLe(pos, Zero)

\* "short_ma < long_ma and position >= 0"
SellSignal(s, l, pos) == RLt(s, l) /\ RLe(Zero, pos)

\* lines 49-56: close the short position at price
CloseShort(st, price) ==
    IF st.entry_price = None THEN Fault(st)
    ELSE LET profit == RMul(RSub(st.entry_price, price), RAbs(st.position))
             bal == RAdd(RMul(st.entry_price, RAbs(st.position)), profit)
         IN  [st EXCEPT !.balance = bal, !.position = Zero,
                        !.events = Append(@, ExitEvent("Short", price, profit, bal))]

\* lines 70-77: close the long position at price
CloseLong(st, price) ==
    IF st.entry_price = None THEN Fault(st)
    ELSE LET profit == RMul(RSub(price, st.entry_price), RAbs(st.position))
             bal == RAdd(RMul(st.entry_price, RAbs(st.position)), profit)
         IN  [st EXCEPT !.balance = bal, !.position = Zero,
                        !.events = Append(@, ExitEvent("Long", price, profit, bal))]

\* lines 59-65: open a long position at price with the whole balance
OpenLong(st, price, lev) ==
    [st EXCEPT !.entry_price = price,
               !.position = RDiv(RMul(st.balance, R(lev)), price),
               !.balance = Zero,
               !.events = Append(@, EnterEvent("Long", price, Zero))]

\* lines 80-86: open a short position at price
OpenShort(st, price, lev) ==
    LET pos == RDiv(RNeg(RMul(st.balance, R(lev))), price)
        bal == RSub(st.balance, RMul(RAbs(pos), price))
    IN  [st EXCEPT !.entry_price = price, !.position = pos, !.balance = bal,
                   !.events = Append(@, EnterEvent("Short", price, bal))]

\* lines 39-86: one iteration of the loop, with i bound to idx
LoopBody(st, d, idx, sw, lw, lev) ==
    LET close_prices == ClosePrefix(d, idx)
        s == exponential_moving_average(close_prices, sw)
        l == exponential_moving_average(close_prices, lw)
        st1 == [st EXCEPT !.i = idx, !.short_ma = s, !.long_ma = l]
        price == Item(d, idx)
    IN  IF s = None \/ l = None THEN st1
        ELSE IF BuySignal(s, l, st.position)
        THEN LET c == IF RLt(st.position, Zero) THEN CloseShort(st1, price)
                      ELSE st1
             IN  IF c.pc = "fault" THEN c ELSE OpenLong(c, price, lev)
        ELSE IF SellSignal(s, l, st.position)
        THEN LET c == IF RLt(Zero, st.position) THEN CloseLong(st1, price)
                      ELSE st1
             IN  IF c.pc = "fault" THEN c ELSE OpenShort(c, price, lev)
        ELSE st1

\* lines 89-95: force-close a long position; the exit price is read
\* through the loop variable i, the printed price through data[-1]
FinalLong(st, d) ==
    LET exit_price == IF st.i = Unbound THEN None ELSE Item(d, st.i)
        last == Item(d, -1)
    IN  IF exit_price = None \/ last = None \/ st.entry_price = None
        THEN Fault(st)
        ELSE LET profit == RMul(RSub(exit_price, st.entry_price), RAbs(st.position))
                 bal == RAdd(RMul(st.entry_price, RAbs(st.position)), profit)
             IN  [st EXCEPT !.balance = bal, !.result = bal, !.pc = "done",
                            !.events = Append(@, ExitEvent("Long", last, profit, bal))]

FinalShortSignSlip(st, d) ==
    LET exit_price == Item(d, -1)
    IN  IF exit_price = None \/ st.entry_price = None
        THEN Fault(st)
        ELSE LET profit == RMul(RSub(exit_price, st.entry_price), RAbs(st.position))
                 bal == RAdd(RMul(st.entry_price, RAbs(st.position)), profit)
             IN  [st EXCEPT !.balance = bal, !.result = bal, !.pc = "done",
                            !.events = Append(@, ExitEvent("Short", exit_price, profit, bal))]

\* lines 96-101: force-close a short position against data[-1]
FinalShort(st, d) ==
    LET exit_price == Item(d, -1)
    IN  IF exit_price = None \/ st.entry_price = None
        THEN Fault(st)
        ELSE LET profit == RMul(RSub(st.entry_price, exit_price), RAbs(st.position))
                 bal == RAdd(RMul(st.entry_price, RAbs(st.position)), profit)
             IN  [st EXCEPT !.balance = bal, !.result = bal, !.pc = "done",
                            !.events = Append(@, ExitEvent("Short", exit_price, profit, bal))]

\* line 103 when neither branch ran: "return balance"
FinalFlat(st) == [st EXCEPT !.result = st.balance, !.pc = "done"]

FinalHandlingUnguarded(st, d) ==
    IF Item(d, -1) = None THEN Fault(st)
    ELSE IF RLt(Zero, st.position) THEN FinalLong(st, d)
    ELSE IF RLt(st.position, Zero) THEN FinalShort(st, d)
    ELSE FinalFlat(st)

\* lines 88-103: final position handling and "return balance"
FinalHandling(st, d) ==
    IF RLt(Zero, st.position) THEN FinalLong(st, d)
    ELSE IF RLt(st.position, Zero) THEN FinalShort(st, d)
    ELSE FinalFlat(st)

\* a variant of the range that steps by two
NextIndexSkip(st, lw) == IF st.i = Unbound THEN lw ELSE st.i + 2

\* range(long_window, len(data)): the index the next iteration binds to i
NextIndex(st, lw) == IF st.i = Unbound THEN lw ELSE st.i + 1

(* ------------------------- backtest: actions -------------------------- *)
Series == UNION {[1..n -> 1..MaxPrice] : n \in 0..MaxLen}

InitBacktest ==
    /\ data \in Series
    /\ short_window \in 1..MaxWin
    /\ long_window \in 1..MaxWin
    /\ initial_balance \in 1..MaxBalance
    /\ leverage \in {1, MaxLeverage}
    /\ run = StartRun(initial_balance)

InitLive ==
    /\ last_trade = "None"
    /\ live_pc = "running"
    /\ fetch = "none"
    /\ df = <<>>
    /\ buy_signal = FALSE
    /\ sell_signal = FALSE
    /\ emitted = <<>>
    /\ notifications = <<>>
    /\ cycle = 0
    /\ sound = "none"
    /\ notify = "none"

\* no indicator call under observation
IdleIndicators ==
    ind = [prices |-> <<>>, period |-> 1, sma |-> None, ema |-> None,
           pc |-> "idle"]

Init ==
    /\ InitBacktest
    /\ InitLive
    /\ IdleIndicators

\* one iteration of "for i in range(long_window, len(data))"
Iterate ==
    /\ run.pc = "loop"
    /\ NextIndex(run, long_window) < Len(data)
    /\ run' = LoopBody(run, data, NextIndex(run, long_window),
                       short_window, long_window, leverage)
    /\ UNCHANGED <<ind, btParams, liveVars>>

\* the range is exhausted: final position handling, return
Finish ==
    /\ run.pc = "loop"
    /\ NextIndex(run, long_window) >= Len(data)
    /\ run' = FinalHandling(run, data)
    /\ UNCHANGED <<ind, btParams, liveVars>>

Next == Iterate \/ Finish

Spec == Init /\ [][Next]_vars

(* ========================= backtest: properties ======================= *)
\* the balance held immediately before the open that printed events[k]
PreOpenBalance(k) ==
    IF k = 1 THEN R(initial_balance) ELSE events[k - 1].balance

LastEvent == events[Len(events)]

\* C1: every close (in-loop or final) leaves balance = the balance held
\* immediately before that position was opened + the realized profit
C1_CloseRestoresPrincipal ==
    \A k \in 1..Len(events) :
        events[k].kind = "Exit" =>
            /\ k > 1
            /\ events[k - 1].kind = "Enter"
            /\ events[k].balance = RAdd(PreOpenBalance(k - 1), events[k].profit)

\* C2: between loop steps, balance + |position| * entry_price equals the
\* balance held just before the current position was opened
C2_CapitalConservation ==
    pc = "loop" =>
        IF events = <<>>
        THEN position = Zero /\ balance = R(initial_balance)
        ELSE RAdd(balance, RMul(RAbs(position), entry_price))
                 = PreOpenBalance(Len(events))

\* C3: between loop steps the engine is Flat before the first Enter, Long
\* (position > 0) after an Enter{Long} and Short (position < 0) after an
\* Enter{Short} that has not been exited
C3_PositionInvariant ==
    pc = "loop" =>
        IF events = <<>> THEN position = Zero
        ELSE /\ LastEvent.kind = "Enter"
             /\ LastEvent.side = "Long" => RLt(Zero, position)
             /\ LastEvent.side = "Short" => RLt(position, Zero)

\* C4: with leverage = 1 the balance is never negative, after every loop
\* step and in the returned value
C4_BalanceNonNegative ==
    leverage = 1 =>
        /\ pc \in {"loop", "done"} => RLe(Zero, balance)
        /\ pc = "done" => RLe(Zero, result)

C6_FinalForceClose ==
    [][(pc = "loop" /\ pc' # "loop") =>
        LET last == Item(data, -1)
            size == RAbs(position)
            profit == IF RLt(Zero, position)
                      THEN RMul(RSub(last, entry_price), size)
                      ELSE RMul(RSub(entry_price, last), size)
            bal == RAdd(RMul(entry_price, size), profit)
            side == IF RLt(Zero, position) THEN "Long" ELSE "Short"
        IN  /\ pc' = "done"
            /\ IF position # Zero
               THEN /\ events' = Append(events, ExitEvent(side, last, profit, bal))
                    /\ result' = bal
               ELSE /\ events' = events
                    /\ result' = balance]_vars

C6_Witness ==
    /\ pc = "done"
    /\ RLt(position, Zero)
    /\ LastEvent.kind = "Exit"
    /\ LastEvent.price # entry_price

\* C8: a loop step that finds neither (short_ma > long_ma and position <= 0)
\* nor (short_ma < long_ma and position >= 0) leaves position, entry_price
\* and balance unchanged and prints nothing
C8_FrameCondition ==
    [][(pc = "loop" /\ pc' = "loop") =>
        LET s == short_ma'
            l == long_ma'
            acts == /\ s # None
                    /\ l # None
                    /\ \/ RLt(l, s) /\ RLe(position, Zero)
                       \/ RLt(s, l) /\ RLe(Zero, position)
        IN  ~acts => /\ position' = position
                     /\ entry_price' = entry_price
                     /\ balance' = balance
                     /\ events' = events]_vars

\* a step that saw short_ma > long_ma while Long and printed nothing
C8_Witness ==
    /\ pc = "loop"
    /\ i # Unbound
    /\ short_ma # None
    /\ long_ma # None
    /\ RLt(long_ma, short_ma)
    /\ RLt(Zero, position)
    /\ LastEvent.price # Item(data, i)

\* backtest's loop run to the end of the series d from the locals st
RECURSIVE Replay(_, _, _, _, _)
Replay(st, d, sw, lw, lev) ==
    IF st.pc = "loop" /\ NextIndex(st, lw) < Len(d)
    THEN Replay(LoopBody(st, d, NextIndex(st, lw), sw, lw, lev), d, sw, lw, lev)
    ELSE st

\* C7: the locals after step i (the indicators compared, position, balance,
\* entry_price, the events printed so far) are those of a run over the
\* series cut after candle i; so two series that agree on the candles at
\* indices <= i are in the same state after step i, whatever follows
C7_NoLookahead ==
    (pc = "loop" /\ i # Unbound) =>
        run = Replay(StartRun(initial_balance), SubSeq(data, 1, i + 1),
                     short_window, long_window, leverage)

\* a step that traded while later candles, different from the one traded
\* at, were still to come
C7_Witness ==
    /\ pc = "loop"
    /\ i # Unbound
    /\ i + 1 < Len(data)
    /\ events # <<>>
    /\ LastEvent.price = Item(data, i)
    /\ Item(data, i + 1) # Item(data, i)

(* ============================ live engine ============================= *)
RSI_OVERBOUGHT == 70
RSI_OVERSOLD == 30

NaN == -1         \* a missing indicator value; every comparison with it is False

FLt(x, y) == x # NaN /\ y # NaN /\ x < y

\* the signals read the order of SMA and LMA and the side of the two RSI
\* thresholds only: two levels and NaN give every order, four RSI values
\* every side
Levels == {NaN, 1, 2}
RsiLevels == {NaN, 20, 50, 80}
PrevRows == [SMA : Levels, LMA : Levels]
LatestRows == [SMA : Levels, LMA : Levels, RSI : RsiLevels]

check_trade_signalsLevel(f) ==
    LET latest == f[2]
    IN  [buy |-> /\ FLt(latest.LMA, latest.SMA)
                 /\ FLt(latest.RSI, RSI_OVERBOUGHT),
         sell |-> /\ FLt(latest.SMA, latest.LMA)
                  /\ FLt(RSI_OVERSOLD, latest.RSI)]

\* check_trade_signals(df), f = <<df.iloc[-2], df.iloc[-1]>>
check_trade_signals(f) ==
    LET prev == f[1]
        latest == f[2]
    IN  [buy |-> /\ FLt(prev.SMA, prev.LMA)
                 /\ FLt(latest.LMA, latest.SMA)
                 /\ FLt(latest.RSI, RSI_OVERBOUGHT),
         sell |-> /\ FLt(prev.LMA, prev.SMA)
                  /\ FLt(latest.SMA, latest.LMA)
                  /\ FLt(RSI_OVERSOLD, latest.RSI)]

BuyActionableUngated(buy, lt) == buy

\* "if buy_signal and last_trade != "BUY""
BuyActionable(buy, lt) == buy /\ lt # "BUY"

\* "elif sell_signal and last_trade != "SELL""
SellActionable(sell, lt) == sell /\ lt # "SELL"

manage_trade_signalsForgetful(buy, sell, lt) ==
    IF BuyActionable(buy, lt)
    THEN [last_trade |-> "BUY", sent |-> <<"BUY">>]
    ELSE IF SellActionable(sell, lt)
    THEN [last_trade |-> lt, sent |-> <<"SELL">>]
    ELSE [last_trade |-> lt, sent |-> <<>>]

\* manage_trade_signals: the new last_trade and the notifications sent
manage_trade_signals(buy, sell, lt) ==
    IF BuyActionable(buy, lt)
    THEN [last_trade |-> "BUY", sent |-> <<"BUY">>]
    ELSE IF SellActionable(sell, lt)
    THEN [last_trade |-> "SELL", sent |-> <<"SELL">>]
    ELSE [last_trade |-> lt, sent |-> <<>>]

\* the backtester is not running
IdleBacktest ==
    /\ data = <<>>
    /\ short_window = 1
    /\ long_window = 1
    /\ initial_balance = 1
    /\ leverage = 1
    /\ run = StartRun(1)

InitLiveEngine == IdleBacktest /\ InitLive /\ IdleIndicators

\* send_notification starts the playsound thread and goes on: the thread
\* may play, die of its own exception or never end
SoundFates == {"ok", "failed", "hung"}

\* one iteration of "while True" of main() whose fetch succeeds and whose
\* notification.notify, if called, returns
PollCycle ==
    /\ live_pc = "running"
    /\ cycle < MaxCycles
    /\ \E f \in PrevRows \X LatestRows :
        LET sig == check_trade_signals(f)
            m == manage_trade_signals(sig.buy, sig.sell, last_trade)
        IN  /\ fetch' = "ok"
            /\ df' = f
            /\ buy_signal' = sig.buy
            /\ sell_signal' = sig.sell
            /\ last_trade' = m.last_trade
            /\ emitted' = m.sent
            /\ notifications' = notifications \o m.sent
            /\ IF m.sent = <<>>
               THEN sound' = "none" /\ notify' = "none"
               ELSE sound' \in SoundFates /\ notify' = "ok"
    /\ cycle' = cycle + 1
    /\ live_pc' = "running"
    /\ UNCHANGED <<ind, btParams, run>>

\* an iteration whose get_price_data raises (requests.get fails, the body
\* is not the expected JSON table): nothing in main() catches it
FetchFailure ==
    /\ live_pc = "running"
    /\ \E f \in {"network_error", "malformed"} : fetch' = f
    /\ live_pc' = "terminated"
    /\ UNCHANGED <<ind, btParams, run, last_trade, df, buy_signal, sell_signal,
                   emitted, notifications, cycle, sound, notify>>

\* an iteration with an actionable signal whose notification.notify raises
\* or never returns: send_notification calls it on the loop's own thread,
\* before last_trade is assigned, and nothing catches or bounds it
NotifyFailure ==
    /\ live_pc = "running"
    /\ cycle < MaxCycles
    /\ \E f \in PrevRows \X LatestRows, n \in {"raised", "hung"} :
        LET sig == check_trade_signals(f)
            m == manage_trade_signals(sig.buy, sig.sell, last_trade)
        IN  /\ m.sent # <<>>
            /\ fetch' = "ok"
            /\ df' = f
            /\ buy_signal' = sig.buy
            /\ sell_signal' = sig.sell
            /\ sound' \in SoundFates
            /\ notify' = n
            /\ live_pc' = IF n = "raised" THEN "terminated" ELSE "blocked"
    /\ emitted' = <<>>
    /\ UNCHANGED <<ind, btParams, run, last_trade, notifications, cycle>>

NextLive == PollCycle \/ FetchFailure \/ NotifyFailure

SpecLive == InitLiveEngine /\ [][NextLive]_vars

\* a call of manage_trade_signals with arbitrary arguments
ManageCall ==
    /\ cycle < MaxCalls
    /\ \E buy \in BOOLEAN, sell \in BOOLEAN :
        LET m == manage_trade_signals(buy, sell, last_trade)
        IN  /\ buy_signal' = buy
            /\ sell_signal' = sell
            /\ last_trade' = m.last_trade
            /\ emitted' = m.sent
            /\ notifications' = notifications \o m.sent
            /\ sound' = (IF m.sent = <<>> THEN "none" ELSE "ok")
            /\ notify' = (IF m.sent = <<>> THEN "none" ELSE "ok")
    /\ cycle' = cycle + 1
    /\ UNCHANGED <<ind, btParams, run, live_pc, fetch, df>>

NextGate == ManageCall

SpecGate == InitLiveEngine /\ [][NextGate]_vars

(* ======================== live engine: properties ===================== *)
Alternates(ns) == \A k \in 1..(Len(ns) - 1) : ns[k] # ns[k + 1]

BuyCount(ns) == Cardinality({k \in 1..Len(ns) : ns[k] = "BUY"})

\* last_trade as it was before the latest cycle
PriorTrade ==
    IF Len(notifications) = Len(emitted) THEN "None"
    ELSE notifications[Len(notifications) - Len(emitted)]

\* C9 as stated: a cycle sends at most one notification, the notifications
\* sent alternate between BUY and SELL, and two consecutive cycles with a
\* true buy condition send exactly one BUY between them
C9_AlternationExactlyOne ==
    [][/\ Len(emitted') <= 1
       /\ Alternates(notifications')
       /\ (cycle >= 1 /\ cycle' = cycle + 1 /\ buy_signal /\ buy_signal') =>
              BuyCount(emitted) + BuyCount(emitted') = 1]_vars

\* C9 amended: a cycle sends at most one notification, the notifications
\* sent alternate between BUY and SELL, and two consecutive cycles with a
\* true buy condition send at most one BUY between them, exactly one when
\* last_trade was not BUY before the first of the two
C9_Alternation ==
    [][/\ Len(emitted') <= 1
       /\ Alternates(notifications')
       /\ (cycle >= 1 /\ cycle' = cycle + 1 /\ buy_signal /\ buy_signal') =>
              /\ BuyCount(emitted) + BuyCount(emitted') <= 1
              /\ PriorTrade # "BUY" =>
                     BuyCount(emitted) + BuyCount(emitted') = 1]_vars

\* a second consecutive cycle with a true buy condition, right after the
\* cycle that sent BUY, has sent nothing
C9_Witness ==
    /\ cycle >= 2
    /\ buy_signal
    /\ emitted = <<>>
    /\ last_trade = "BUY"
    /\ Len(notifications) >= 2

\* C10: a poll cycle whose fetch fails sends nothing, leaves last_trade as
\* it was, and the loop goes on to the next cycle
C10_SurvivesFetchFailure ==
    [][fetch' \in {"network_error", "malformed"} =>
        /\ live_pc' = "running"
        /\ last_trade' = last_trade
        /\ notifications' = notifications]_vars

SustainedUp(f) == FLt(f[1].LMA, f[1].SMA) /\ FLt(f[2].LMA, f[2].SMA)

SustainedDown(f) == FLt(f[1].SMA, f[1].LMA) /\ FLt(f[2].SMA, f[2].LMA)

\* C11: a cycle whose last two rows both have SMA > LMA produces no buy
\* signal and sends no BUY; one whose last two rows both have SMA < LMA
\* produces no sell signal and sends no SELL
C11_EdgeOnlyFiring ==
    df # <<>> =>
        /\ SustainedUp(df) => ~buy_signal /\ "BUY" \notin {emitted[k] : k \in 1..Len(emitted)}
        /\ SustainedDown(df) => ~sell_signal /\ "SELL" \notin {emitted[k] : k \in 1..Len(emitted)}

\* a cycle after the one that sent BUY, SMA still above LMA and RSI below
\* the overbought threshold, has sent nothing
C11_Witness ==
    /\ cycle >= 2
    /\ notifications = <<"BUY">>
    /\ emitted = <<>>
    /\ SustainedUp(df)
    /\ df[2].RSI = 50
    /\ live_pc = "running"

C13_SideEffectIsolation ==
    [][(sound' \in {"failed", "hung"} \/ notify' \in {"raised", "hung"}) =>
        /\ live_pc' = "running"
        /\ cycle' = cycle + 1
        /\ last_trade' = manage_trade_signals(buy_signal', sell_signal',
                                              last_trade).last_trade]_vars

(* ==================== backtest: properties, continued ================= *)
\* the events printed by a step are priced at the close of candle i
TradesAtClose ==
    \A k \in (Len(events) + 1)..Len(events') :
        events'[k].price = Item(data, i')

\* C14 as stated: step i compares the EMAs of the closes of candles 0..i,
\* candle i included, and trades at the close of candle i
C14_IndicatorsIncludeCurrent ==
    [][(pc = "loop" /\ pc' = "loop") =>
        /\ short_ma' = exponential_moving_average(SubSeq(data, 1, i' + 1),
                                                  short_window)
        /\ long_ma' = exponential_moving_average(SubSeq(data, 1, i' + 1),
                                                 long_window)
        /\ TradesAtClose]_vars

\* C14 amended: step i compares the EMAs of the closes of candles 0..i-1
\* and trades at the close of candle i, which is not among them
C14_IndicatorsExcludeCurrent ==
    [][(pc = "loop" /\ pc' = "loop") =>
        /\ short_ma' = exponential_moving_average(SubSeq(data, 1, i'),
                                                  short_window)
        /\ long_ma' = exponential_moving_average(SubSeq(data, 1, i'),
                                                 long_window)
        /\ TradesAtClose]_vars

\* a step has traded at a close that would have changed the short EMA
C14_Witness ==
    /\ pc = "loop"
    /\ i # Unbound
    /\ events # <<>>
    /\ LastEvent.price = Item(data, i)
    /\ short_ma # exponential_moving_average(SubSeq(data, 1, i + 1),
                                             short_window)

\* the balance held by a step right before it opens: the balance its own
\* close printed, else the balance it started with
StepPreOpen ==
    IF Len(events') = Len(events) + 2
    THEN events'[Len(events') - 1].balance
    ELSE balance

\* the bookkeeping of the open of a step that printed something
OpenBookkeeping(B) ==
    LET e == events'[Len(events')]
        price == Item(data, i')
        size == RDiv(RMul(B, R(leverage)), price)
    IN  /\ e.kind = "Enter"
        /\ entry_price' = price
        /\ e.side = "Long" => position' = size /\ balance' = Zero
        /\ e.side = "Short" =>
               /\ position' = RNeg(size)
               /\ balance' = RSub(B, RMul(RAbs(position'), price))
               /\ balance' = RMul(B, R(1 - leverage))

\* C15: an open at step i with pre-open balance B books
\* B * leverage / close[i] as a Long with balance 0, or the same magnitude
\* as a Short with balance B - size * close[i] = B * (1 - leverage); the
\* balance after the open is 0 when leverage = 1, and negative after a
\* Short open when leverage > 1
C15_OpenBookkeeping ==
    [][(pc = "loop" /\ pc' = "loop" /\ events' # events) =>
        /\ OpenBookkeeping(StepPreOpen)
        /\ leverage = 1 => balance' = Zero
        /\ (leverage > 1 /\ events'[Len(events')].side = "Short") =>
               RLt(balance', Zero)]_vars

Opposite(side) == IF side = "Long" THEN "Short" ELSE "Long"

\* C16: the printed events start with an Enter, alternate between Enter and
\* Exit, each Exit has the side of the Enter before it, each Exit printed in
\* the loop is followed by an Enter of the other side at the same price, and
\* a run that has printed anything ends with an Exit
C16_WellFormedTradeLog ==
    /\ events # <<>> => events[1].kind = "Enter"
    /\ \A k \in 1..(Len(events) - 1) :
           /\ events[k].kind # events[k + 1].kind
           /\ events[k + 1].kind = "Exit" => events[k + 1].side = events[k].side
           /\ events[k].kind = "Exit" =>
                  /\ events[k + 1].side = Opposite(events[k].side)
                  /\ events[k + 1].price = events[k].price
    /\ (pc = "loop" /\ events # <<>>) => LastEvent.kind = "Enter"
    /\ (pc = "done" /\ events # <<>>) => LastEvent.kind = "Exit"

\* C17: every step of a run is taken before the return, so nothing is
\* printed or changed after the final handling; a step that stays in the
\* loop moves i to the next index (long_window first, then i + 1, always
\* below len(data)), so no index is skipped or visited twice and at most
\* len(data) - long_window such steps exist; the step that leaves the loop
\* is the final handling, taken only when the last index has been visited
\* (or the range was empty), it leaves i alone, prints at most one line and
\* returns
C17_SinglePassTerminates ==
    [][/\ pc = "loop"
       /\ i # Unbound => (long_window <= i /\ i < Len(data))
       /\ pc' = "loop" =>
              /\ i' = (IF i = Unbound THEN long_window ELSE i + 1)
              /\ i' < Len(data)
       /\ pc' # "loop" =>
              /\ pc' = "done"
              /\ i' = i
              /\ IF Len(data) <= long_window THEN i = Unbound
                 ELSE i = Len(data) - 1
              /\ Len(events') <= Len(events) + 1]_vars

\* a run over several indices has returned
C17_Witness ==
    /\ pc = "done"
    /\ Len(data) >= long_window + 3
    /\ i = Len(data) - 1
    /\ Len(events) >= 3

(* ========================= indicator library ========================== *)
\* a call of both moving averages on one series and one period >= 1
InitIndicators ==
    /\ IdleBacktest
    /\ InitLive
    /\ \E ps \in Series, p \in 1..MaxLen :
           ind = [prices |-> ps, period |-> p, sma |-> None, ema |-> None,
                  pc |-> "call"]

IndicatorCall ==
    /\ ind.pc = "call"
    /\ ind' = [ind EXCEPT
                 !.sma = simple_moving_average(ind.prices, ind.period),
                 !.ema = exponential_moving_average(ind.prices, ind.period),
                 !.pc = "returned"]
    /\ UNCHANGED <<btParams, run, liveVars>>

NextIndicators == IndicatorCall

SpecIndicators == InitIndicators /\ [][NextIndicators]_vars

IsConstant(ps) == \A k \in 1..Len(ps) : ps[k] = ps[1]

\* C18: on a series shorter than the period both averages return None; on
\* a constant series at least as long as the period the EMA returns the
\* constant
C18_AvailabilityAndFixedPoint ==
    ind.pc = "returned" =>
        /\ Len(ind.prices) < ind.period =>
               ind.sma = None /\ ind.ema = None
        /\ (Len(ind.prices) >= ind.period /\ IsConstant(ind.prices)) =>
               ind.ema = R(ind.prices[1])

\* the EMA of a constant series of three or more closes has been returned
C18_Witness ==
    /\ ind.pc = "returned"
    /\ Len(ind.prices) >= 3
    /\ ind.period \in 2..Len(ind.prices)
    /\ IsConstant(ind.prices)
    /\ ind.prices[1] > 1
    /\ ind.ema = R(ind.prices[1])
=============================================================================
